---- MODULE Spec2Model ----
(***************************************************************************)
(* govuk-frontend-wtf: the parameter mappers (gov_form_base.py), the error *)
(* flattener and the deep-merge configuration (main.py).                   *)
(*                                                                         *)
(* Python values are tagged tuples <<kind, payload>> so that values of     *)
(* different Python types are always comparable:                           *)
(*   None -> <<"none">>            True/False -> <<"bool", b>>             *)
(*   int  -> <<"int", n>>          str        -> <<"str", chunks>>         *)
(*   dict -> <<"dict", f>>         list       -> <<"list", seq>>           *)
(* A str is a sequence of chunks; the dash is always a chunk of its own,   *)
(* so that rstrip('-') is modelled character-exactly on dashes.            *)
(* A dict of a parameter tree is a function on its keys (Python dict       *)
(* equality ignores order); a dict of an error tree is <<"odict", pairs>>, *)
(* a sequence of <<key, value>> in insertion order, because flatten_errors *)
(* iterates it in that order.                                              *)
(***************************************************************************)
EXTENDS Integers, Sequences, FiniteSets, TLC

PyNone == <<"none">>
PyBool(b) == <<"bool", b>>
PyInt(n) == <<"int", n>>
PyStr(s) == <<"str", s>>
PyDict(f) == <<"dict", f>>
PyList(s) == <<"list", s>>
ValidationError(s) == <<"ValidationError", s>>
ODict(pairs) == <<"odict", pairs>>

Kind(v) == v[1]
Payload(v) == v[2]
IsDict(v) == Kind(v) = "dict"
IsList(v) == Kind(v) = "list"

\* A str made of one dash-free chunk.
S(s) == PyStr(<<s>>)
EmptyDict == PyDict(<<>>)

\* An exception leaving the call: the call returns no value.
Raised(exc) == <<"raise", exc>>
IsRaised(v) == Kind(v) = "raise"

\* dict helpers on the payload function
Keys(d) == DOMAIN Payload(d)
Get(d, k) == Payload(d)[k]
HasKey(d, k) == IsDict(d) /\ k \in Keys(d)
SetItem(d, k, v) ==
    PyDict([x \in Keys(d) \cup {k} |-> IF x = k THEN v ELSE Get(d, x)])
DelItem(d, k) == PyDict([x \in Keys(d) \ {k} |-> Get(d, x)])
\* kwargs.pop(k, default) : the value popped
Pop(kw, k, default) == IF k \in DOMAIN kw THEN kw[k] ELSE default
\* kwargs after popping the keys ks
Without(kw, ks) == [x \in DOMAIN kw \ ks |-> kw[x]]

(***************************************************************************)
(* The merger of main.py: Merger([(list, append), (dict, merge)],          *)
(* [override], [override]).                                                *)
(***************************************************************************)
RECURSIVE value_strategy(_, _)

\* fallback and type-conflict strategy: the override's value replaces base's
strategy_override(base, nxt) == nxt

\* a plausible misconfiguration: lists are overridden instead of appended
strategy_append_replace(base, nxt) == nxt

\* (list, ["append"]): base's elements followed by nxt's
strategy_append(base, nxt) == PyList(Payload(base) \o Payload(nxt))

\* a plausible misconfiguration: dicts are overridden instead of merged
strategy_merge_replace(base, nxt) == nxt

\* (dict, ["merge"]): keys of nxt are added, shared keys are merged again
strategy_merge(base, nxt) ==
    PyDict([k \in Keys(base) \cup Keys(nxt) |->
              IF k \notin Keys(base) THEN Get(nxt, k)
              ELSE IF k \notin Keys(nxt) THEN Get(base, k)
              ELSE value_strategy(Get(base, k), Get(nxt, k))])

value_strategy(base, nxt) ==
    IF IsList(base) /\ IsList(nxt) THEN strategy_append(base, nxt)
    ELSE IF IsDict(base) /\ IsDict(nxt) THEN strategy_merge(base, nxt)
    ELSE strategy_override(base, nxt)

merger_merge(base, nxt) == value_strategy(base, nxt)

\* GovFormBase.merge_params
merge_params(a, b) == merger_merge(a, b)

(***************************************************************************)
(* GovFormBase.map_gov_params.  A field is a record                        *)
(*   [name, label |-> [text], description, errors, subfields];             *)
(* kwargs is a function on the keyword names that were passed.             *)
(***************************************************************************)
\* Python truth value of None, a bool, an int or a str
Truthy(v) ==
    CASE Kind(v) = "none" -> FALSE
      [] Kind(v) = "bool" -> Payload(v)
      [] Kind(v) = "int" -> Payload(v) # 0
      [] Kind(v) = "str" -> Payload(v) # <<>>
      [] OTHER -> TRUE

\* the variant that leaves `value` and `type` out when the kwarg is absent
base_params_omitting(field, kwargs) ==
    LET core == [id |-> Pop(kwargs, "id", PyNone),
                 name |-> field.name,
                 label |-> PyDict([text |-> field.label.text]),
                 attributes |-> EmptyDict,
                 hint |-> IF Truthy(field.description)
                          THEN PyDict([text |-> field.description])
                          ELSE PyNone]
        present == {k \in {"value", "type"} : k \in DOMAIN kwargs}
    IN  PyDict([k \in DOMAIN core \cup present |->
                  IF k \in present THEN kwargs[k] ELSE core[k]])

\* lines 50-61: the base tree, with id, value and type popped from kwargs
base_params(field, kwargs) ==
    PyDict([id |-> Pop(kwargs, "id", PyNone),
            name |-> field.name,
            label |-> PyDict([text |-> field.label.text]),
            attributes |-> EmptyDict,
            hint |-> IF Truthy(field.description)
                     THEN PyDict([text |-> field.description])
                     ELSE PyNone,
            value |-> Pop(kwargs, "value", PyNone),
            type |-> Pop(kwargs, "type", PyNone)])

\* a slip that forgets to pop `type`
residual_kwargs_keeps_type(kwargs) ==
    Without(kwargs, {"id", "value", "items", "params"})

\* kwargs as left by the pops of lines 51, 60, 61, 63 and 65
residual_kwargs(kwargs) ==
    Without(kwargs, {"id", "value", "type", "items", "params"})

\* a slip that sets the error message only when the tree has none yet
set_error_message_default(params, field) ==
    IF Len(field.errors) > 0 /\ ~HasKey(params, "errorMessage")
    THEN SetItem(params, "errorMessage", PyDict([text |-> field.errors[1]]))
    ELSE params

\* lines 67-68 (and 136-137): the first error replaces errorMessage
set_error_message(params, field) ==
    IF Len(field.errors) > 0
    THEN SetItem(params, "errorMessage", PyDict([text |-> field.errors[1]]))
    ELSE params

\* line 70: dict.update
update(d, kw) ==
    PyDict([k \in Keys(d) \cup DOMAIN kw |->
              IF k \in DOMAIN kw THEN kw[k] ELSE Get(d, k)])

\* `value == True` instead of `value is True`: 1 == True in Python
boolean_attributes_equal(attributes) ==
    PyDict([k \in Keys(attributes) |->
              IF Get(attributes, k) \in {PyBool(TRUE), PyInt(1)}
              THEN S(k) ELSE Get(attributes, k)])

\* lines 73-75: a value that is True becomes the key itself
boolean_attributes(attributes) ==
    PyDict([k \in Keys(attributes) |->
              IF Get(attributes, k) = PyBool(TRUE)
              THEN S(k) ELSE Get(attributes, k)])

GovFormBase_map_gov_params(field, kwargs) ==
    LET params == base_params(field, kwargs)
        merged == merge_params(params, Pop(kwargs, "params", EmptyDict))
        witherr == set_error_message(merged, field)
    IN  IF ~HasKey(witherr, "attributes") THEN Raised("KeyError")
        ELSE IF ~IsDict(Get(witherr, "attributes"))
        THEN Raised("AttributeError")
        ELSE SetItem(witherr, "attributes",
                     boolean_attributes(
                         update(Get(witherr, "attributes"),
                                residual_kwargs(kwargs))))

(***************************************************************************)
(* GovIterableBase.                                                        *)
(***************************************************************************)
\* __call__, lines 105-112: one item per subfield
build_items(field) ==
    PyList([i \in 1..Len(field.subfields) |->
              PyDict([text |-> field.subfields[i].label.text,
                      value |-> field.subfields[i].value,
                      checked |-> field.subfields[i].checked])])

\* __call__, lines 98-112: the kwargs handed to map_gov_params
call_kwargs(field, kwargs) ==
    ("items" :> build_items(field))
    @@ kwargs
    @@ ("id" :> field.id)
    @@ ("required" :> PyBool("required" \in field.flags))

\* a slip that appends the override's items instead of merging by index
merge_items_appending(items, overrides) ==
    PyList(Payload(items) \o Payload(overrides))

\* lines 131-132: override item i is merged into item i; items[i] raises
\* IndexError when the override has more items than the field
merge_items(items, overrides) ==
    IF Len(Payload(overrides)) > Len(Payload(items))
    THEN Raised("IndexError")
    ELSE PyList([i \in 1..Len(Payload(items)) |->
                   IF i <= Len(Payload(overrides))
                   THEN merge_params(Payload(items)[i], Payload(overrides)[i])
                   ELSE Payload(items)[i]])

\* the tree returned by GovIterableBase.map_gov_params, or the exception
GovIterableBase_map_gov_params(field, kwargs) ==
    LET params == PyDict([name |-> field.name,
                          items |-> kwargs["items"],
                          hint |-> PyDict([text |-> field.description])])
        extra_params == kwargs["params"]
        items == merge_items(Get(params, "items"), Get(extra_params, "items"))
        merged ==
            IF "params" \notin DOMAIN kwargs THEN params
            ELSE IF ~HasKey(extra_params, "items")
            THEN merge_params(params, extra_params)
            ELSE IF IsRaised(items) THEN items
            ELSE merge_params(SetItem(params, "items", items),
                              DelItem(extra_params, "items"))
    IN  IF IsRaised(merged) THEN merged
        ELSE set_error_message(merged, field)

\* line 133: the caller's override object after the call; the del is not
\* reached when line 132 raised
extra_params_after(field, kwargs) ==
    IF /\ HasKey(kwargs["params"], "items")
       /\ ~IsRaised(merge_items(kwargs["items"], Get(kwargs["params"], "items")))
    THEN DelItem(kwargs["params"], "items")
    ELSE kwargs["params"]

(***************************************************************************)
(* flatten_errors and wtforms_errors (main.py).                            *)
(***************************************************************************)
Digits == <<"0", "1", "2", "3", "4", "5", "6", "7", "8", "9">>

RECURSIVE format_int(_)
\* f"{idx}" : the decimal digits of a natural number
format_int(n) ==
    IF n < 10 THEN <<Digits[n + 1]>>
    ELSE format_int(n \div 10) \o <<Digits[(n % 10) + 1]>>

\* str(x) for the leaves of an error tree
py_str(v) ==
    CASE Kind(v) = "str" -> Payload(v)
      [] Kind(v) = "int" -> format_int(Payload(v))
      [] Kind(v) = "ValidationError" -> Payload(v)
      [] Kind(v) = "none" -> <<"None">>
      [] OTHER -> <<"?">>

RECURSIVE rstrip(_)
\* prefix.rstrip('-') : removes every trailing dash
rstrip(s) ==
    IF s # <<>> /\ s[Len(s)] = "-" THEN rstrip(SubSeq(s, 1, Len(s) - 1))
    ELSE s

\* {"text": str(x), "href": f"#{prefix.rstrip('-')}"}
error_entry(x, prefix) ==
    PyDict([text |-> PyStr(py_str(x)),
            href |-> PyStr(<<"#">> \o rstrip(prefix))])

\* id_map.get(key, key)
id_map_get(id_map, key) == IF key \in DOMAIN id_map THEN id_map[key] ELSE key

\* error_list.extend(...) where either side may have raised
extend(error_list, more) ==
    IF IsRaised(error_list) THEN error_list
    ELSE IF IsRaised(more) THEN more
    ELSE PyList(Payload(error_list) \o Payload(more))

RECURSIVE flatten_errors(_, _, _)
RECURSIVE flatten_dict(_, _, _, _)
RECURSIVE flatten_list(_, _, _, _)

\* lines 86-89, from the i-th (key, value) on
flatten_dict(pairs, i, prefix, id_map) ==
    IF i > Len(pairs) THEN PyList(<<>>)
    ELSE extend(flatten_errors(pairs[i][2],
                               prefix \o id_map_get(id_map, pairs[i][1])
                                      \o <<"-">>,
                               id_map),
                flatten_dict(pairs, i + 1, prefix, id_map))

\* lines 92-94, from the i-th element on (enumerate counts from 0)
flatten_list(elems, i, prefix, id_map) ==
    IF i > Len(elems) THEN PyList(<<>>)
    ELSE extend(flatten_errors(elems[i],
                               prefix \o format_int(i - 1) \o <<"-">>,
                               id_map),
                flatten_list(elems, i + 1, prefix, id_map))

flatten_errors(errors, prefix, id_map) ==
    IF Kind(errors) = "odict"
    THEN flatten_dict(Payload(errors), 1, prefix, id_map)
    ELSE IF Kind(errors) = "list"
    THEN IF Payload(errors) = <<>> THEN Raised("IndexError")
         ELSE IF Kind(Payload(errors)[1]) = "odict"
         THEN flatten_list(Payload(errors), 1, prefix, id_map)
         ELSE PyList(<<error_entry(Payload(errors)[1], prefix)>>)
    ELSE PyList(<<error_entry(errors, prefix)>>)

\* lines 52-55: the ids of the fields that have one
form_id_map(form) ==
    [name \in {n \in DOMAIN form.fields : "id" \in DOMAIN form.fields[n]} |->
        form.fields[name].id]

wtforms_errors(form, params) ==
    LET error_list == flatten_errors(form.errors, <<>>, form_id_map(form))
    IN  IF IsRaised(error_list) THEN error_list
        ELSE merger_merge(PyDict([titleText |-> S("There is a problem"),
                                  errorList |-> error_list]),
                          params)

(***************************************************************************)
(* Inputs.  Each behaviour starts with the arguments of one operation; the *)
(* caller keeps them and may repeat the call with the same objects.        *)
(***************************************************************************)
MaxLen == 2
MaxErrors == 2
MaxItems == 2
MaxMsgs == 2
MaxSubForms == 2
MaxCalls == 2

\* every dict with keys among ks and values in vs
DictsOver(ks, vs) ==
    {PyDict(f) : f \in UNION {[sub -> vs] : sub \in SUBSET ks}}
\* a keyword that is absent or has one of the values vs
Optional(k, vs) == {<<>>} \cup {k :> v : v \in vs}
\* the sequences over vs of a length in lo..hi
SeqsOver(vs, lo, hi) == UNION {[1..n -> vs] : n \in lo..hi}

MergeScalars == {PyInt(1), PyInt(2)}
MergeLists == {PyList(s) : s \in SeqsOver(MergeScalars, 0, MaxLen)}
MergeInner == DictsOver({"x", "y"}, MergeScalars)
\* the values under "a" are mostly mappings, those under "items" mostly
\* sequences; each also takes values of the other types
MergeTrees ==
    {PyDict(a @@ i) :
        a \in Optional("a", MergeScalars \cup MergeInner \cup {PyList(<<>>)}),
        i \in Optional("items", MergeLists \cup {PyInt(1), EmptyDict})}

ErrorMessages == <<S("E1"), S("E2"), S("E3"), S("E4")>>
Descriptions == {PyNone, PyStr(<<>>), S("D")}
Labels == <<"A", "B", "C", "D">>
SubField(i) ==
    [label |-> [text |-> S(Labels[i])], value |-> S(Labels[i]),
     checked |-> PyBool(i = 3)]
\* fields with n options, description d and e errors
Field(n, d, e) ==
    [name |-> S("n"), id |-> S("fid"), label |-> [text |-> S("L")],
     description |-> d, errors |-> SubSeq(ErrorMessages, 1, e),
     flags |-> {"required"}, subfields |-> [i \in 1..n |-> SubField(i)]]
Fields == {Field(0, d, e) : d \in Descriptions, e \in 0..MaxErrors}
IterableFields ==
    {Field(n, d, e) : n \in 0..MaxItems, d \in Descriptions, e \in 0..MaxErrors}

\* overrides of the field-derived paths
PathOverrides ==
    {<<>>,
     [name |-> S("ON")],
     [label |-> PyDict([text |-> S("OL")])],
     [hint |-> PyDict([text |-> S("OH")])],
     [errorMessage |-> PyDict([text |-> S("OE")])],
     [name |-> S("ON"), label |-> PyDict([text |-> S("OL")]),
      hint |-> PyDict([text |-> S("OH")]),
      errorMessage |-> PyDict([text |-> S("OE")])]}
AttributeOverrides ==
    {<<>>,
     [attributes |-> PyDict([id |-> S("aid")])],
     [attributes |-> PyDict([required |-> PyBool(TRUE), size |-> PyInt(1)])],
     [attributes |-> S("bad")]}
TopOverrides ==
    {<<>>, [value |-> S("OV"), type |-> S("OT"), id |-> S("OID")]}
FormOverrides ==
    {PyDict(p @@ a) :
        p \in PathOverrides, a \in AttributeOverrides \cup TopOverrides}
FormKwargs ==
    {i @@ v @@ t @@ it @@ o @@ r @@ p :
        i \in Optional("id", {S("f1")}),
        v \in Optional("value", {S("v")}),
        t \in Optional("type", {S("text")}),
        it \in Optional("items", {PyList(<<>>)}),
        o \in Optional("other", {S("x")}),
        r \in Optional("required", {PyBool(TRUE), PyBool(FALSE), PyInt(1)}),
        p \in Optional("params", FormOverrides)}

ItemOverrides ==
    {PyDict([checked |-> PyBool(TRUE)]),
     PyDict([text |-> S("Z"), hint |-> PyDict([text |-> S("IH")])])}
IterableOverrides ==
    {PyDict(p @@ it) :
        p \in PathOverrides,
        it \in Optional("items",
                        {PyList(s) :
                            s \in SeqsOver(ItemOverrides, 0, MaxItems + 1)})}
IterableKwargs == Optional("params", IterableOverrides)

\* error trees
Messages == <<S("Required"), S("Other"), S("Third"), S("Fourth")>>
LeafNodes ==
    {PyList(SubSeq(Messages, 1, n)) : n \in 0..MaxMsgs}
    \cup {ValidationError(<<"Invalid">>), PyInt(10)}
ErrorKeys == {<<"child">>, <<"name">>, <<"items">>}
InnerErrors ==
    {ODict(<<>>)}
    \cup {ODict(<< <<k, v>> >>) : k \in ErrorKeys, v \in LeafNodes}
SubFormErrors ==
    {ODict(<<>>),
     ODict(<< <<<<"name">>, PyList(<<S("Required")>>)>> >>),
     ODict(<< <<<<"name">>, PyList(<<>>)>> >>),
     ODict(<< <<<<"child">>, ValidationError(<<"Invalid">>)>> >>)}
RepeatedErrors == {PyList(s) : s \in SeqsOver(SubFormErrors, 1, MaxSubForms)}
ErrorNodes == LeafNodes \cup InnerErrors \cup RepeatedErrors
ErrorTrees ==
    {ODict(<<>>)}
    \cup {ODict(<< <<k, v>> >>) : k \in ErrorKeys, v \in ErrorNodes}
    \cup UNION {{ODict(<< <<k1, v1>>, <<k2, v2>> >>) :
                    k2 \in ErrorKeys \ {k1},
                    v1 \in ErrorNodes, v2 \in LeafNodes} : k1 \in ErrorKeys}
FormErrorTrees ==
    {ODict(<<>>)}
    \cup {ODict(<< <<k, v>> >>) : k \in ErrorKeys, v \in ErrorNodes}
\* a field id may be any string, also one that ends with a dash
IdMaps ==
    {<<>>,
     <<"child">> :> <<"child", "-", "id">>,
     (<<"child">> :> <<"child", "-", "id">>) @@ (<<"name">> :> <<"name", "-">>)}
FormFields ==
    {[k \in ErrorKeys |-> [name |-> k]],
     [k \in ErrorKeys |->
        IF k = <<"child">> THEN [name |-> k, id |-> <<"child", "-", "id">>]
        ELSE [name |-> k, id |-> k]]}
Forms == {[fields |-> f, errors |-> e] : f \in FormFields, e \in FormErrorTrees}
SummaryOverrides ==
    {EmptyDict,
     PyDict([titleText |-> S("T")]),
     PyDict([classes |-> S("c")]),
     PyDict([errorList |->
               PyList(<<PyDict([text |-> S("X"), href |-> S("#x")])>>)])}

VARIABLES op, base, nxt, field, kwargs, errors, id_map, form, params, results

vars == <<op, base, nxt, field, kwargs, errors, id_map, form, params, results>>

NoValue == <<"unset">>

InitMerge ==
    /\ op = "merge"
    /\ base \in MergeTrees
    /\ nxt \in MergeTrees
    /\ field = NoValue /\ kwargs = NoValue
    /\ errors = NoValue /\ id_map = NoValue
    /\ form = NoValue /\ params = NoValue

InitForm ==
    /\ op = "form"
    /\ field \in Fields
    /\ kwargs \in FormKwargs
    /\ base = NoValue /\ nxt = NoValue
    /\ errors = NoValue /\ id_map = NoValue
    /\ form = NoValue /\ params = NoValue

InitIterable ==
    /\ op = "iterable"
    /\ field \in IterableFields
    /\ kwargs \in IterableKwargs
    /\ base = NoValue /\ nxt = NoValue
    /\ errors = NoValue /\ id_map = NoValue
    /\ form = NoValue /\ params = NoValue

InitFlatten ==
    /\ op = "flatten"
    /\ errors \in ErrorTrees
    /\ id_map \in IdMaps
    /\ base = NoValue /\ nxt = NoValue
    /\ field = NoValue /\ kwargs = NoValue
    /\ form = NoValue /\ params = NoValue

InitSummary ==
    /\ op = "summary"
    /\ form \in Forms
    /\ params \in SummaryOverrides
    /\ base = NoValue /\ nxt = NoValue
    /\ field = NoValue /\ kwargs = NoValue
    /\ errors = NoValue /\ id_map = NoValue

Init ==
    /\ results = <<>>
    /\ \/ InitMerge
       \/ InitForm
       \/ InitIterable
       \/ InitFlatten
       \/ InitSummary

\* the caller receives v (a value, or the exception that left the call)
Return(v) == results' = Append(results, v)
Calls == Len(results)

\* merger.merge(base, nxt)
Merge ==
    /\ op = "merge" /\ Calls < MaxCalls
    /\ Return(merger_merge(base, nxt))
    /\ UNCHANGED <<op, base, nxt, field, kwargs, errors, id_map, form, params>>

\* GovFormBase().map_gov_params(field, **kwargs)
MapGovParams ==
    /\ op = "form" /\ Calls < MaxCalls
    /\ Return(GovFormBase_map_gov_params(field, kwargs))
    /\ UNCHANGED <<op, base, nxt, field, kwargs, errors, id_map, form, params>>

\* GovIterableBase().__call__(field, **kwargs) up to the render: the items
\* are built from the subfields and map_gov_params is applied; the override
\* object kwargs["params"] is the caller's and keeps what the call did to it
IterableMapGovParams ==
    /\ op = "iterable" /\ Calls < MaxCalls
    /\ LET kw == call_kwargs(field, kwargs)
       IN  /\ Return(GovIterableBase_map_gov_params(field, kw))
           /\ kwargs' = IF "params" \in DOMAIN kwargs
                        THEN [kwargs EXCEPT !["params"] =
                                 extra_params_after(field, kw)]
                        ELSE kwargs
    /\ UNCHANGED <<op, base, nxt, field, errors, id_map, form, params>>

\* flatten_errors(errors, id_map=id_map)
FlattenErrors ==
    /\ op = "flatten" /\ Calls < MaxCalls
    /\ Return(flatten_errors(errors, <<>>, id_map))
    /\ UNCHANGED <<op, base, nxt, field, kwargs, errors, id_map, form, params>>

\* wtforms_errors(form, params)
WtformsErrors ==
    /\ op = "summary" /\ Calls < MaxCalls
    /\ Return(wtforms_errors(form, params))
    /\ UNCHANGED <<op, base, nxt, field, kwargs, errors, id_map, form, params>>

Next ==
    \/ Merge
    \/ MapGovParams
    \/ IterableMapGovParams
    \/ FlattenErrors
    \/ WtformsErrors

Spec == Init /\ [][Next]_vars

(***************************************************************************)
(* Properties.                                                             *)
(***************************************************************************)
Returned == Calls > 0
Last == results[Len(results)]
Missing == <<"missing">>
At(d, k) == IF HasKey(d, k) THEN Get(d, k) ELSE Missing
At2(d, k1, k2) == At(At(d, k1), k2)
Reserved == {"id", "value", "type", "items", "params"}
\* the `params` override of the current kwargs ({} when absent)
Override == IF "params" \in DOMAIN kwargs THEN kwargs["params"] ELSE EmptyDict
FormReturned == op = "form" /\ Returned /\ IsDict(Last)

\* C1 as stated: in the tree returned by GovFormBase.map_gov_params, for
\* every params override, `attributes` holds none of the reserved keys.
C1_NoReservedKeyInAttributes ==
    FormReturned => Keys(Get(Last, "attributes")) \cap Reserved = {}

\* C1 (amended): `attributes` holds a reserved key only when
\* params.attributes supplies that key; a reserved kwarg never reaches
\* `attributes`; id, value and type given as kwargs are at the top level
\* (with the kwarg's value unless the override sets the key) and every
\* other kwarg is a key of `attributes`.
C1_ReservedKwargsStayOutOfAttributes ==
    FormReturned =>
        LET attrs == Get(Last, "attributes")
        IN  /\ \A r \in Reserved :
                 r \in Keys(attrs) => At2(Override, "attributes", r) # Missing
            /\ \A k \in {"id", "value", "type"} \cap DOMAIN kwargs :
                 At(Override, k) = Missing => Get(Last, k) = kwargs[k]
            /\ \A k \in DOMAIN kwargs \ Reserved :
                 /\ k \in Keys(attrs)
                 /\ Get(attrs, k) \in {kwargs[k], S(k)}

C1_Witness ==
    /\ FormReturned
    /\ {"id", "value", "type", "other"} \subseteq DOMAIN kwargs
    /\ At2(Override, "attributes", "id") = S("aid")
    /\ Get(Last, "id") = S("f1")
    /\ Get(Last, "attributes") = PyDict([id |-> S("aid"), other |-> S("x")])

\* where the value of attribute k comes from: line 70 lets the kwarg win
AttributeSource(k) ==
    IF k \in DOMAIN kwargs \ Reserved THEN kwargs[k]
    ELSE At2(Override, "attributes", k)

\* C2: no attribute of the returned tree is the boolean true; an attribute
\* that was exactly true is the string of its own key, any other attribute
\* (false, 1, a string) has the value it was given.
C2_BooleanAttributesBecomeTheirKey ==
    FormReturned =>
        LET attrs == Get(Last, "attributes")
        IN  \A k \in Keys(attrs) :
              /\ Get(attrs, k) # PyBool(TRUE)
              /\ AttributeSource(k) # Missing
              /\ Get(attrs, k) = IF AttributeSource(k) = PyBool(TRUE)
                                 THEN S(k) ELSE AttributeSource(k)

C2_Witness ==
    /\ FormReturned
    /\ "required" \in DOMAIN kwargs /\ kwargs["required"] = PyBool(TRUE)
    /\ At2(Last, "attributes", "required") = S("required")
    /\ At2(Override, "attributes", "size") = PyInt(1)
    /\ At2(Last, "attributes", "size") = PyInt(1)

RECURSIVE MergedPerType(_, _, _)
\* r is what the per-type strategy prescribes for base b and override n
MergedPerType(r, b, n) ==
    IF IsDict(b) /\ IsDict(n)
    THEN /\ IsDict(r)
         /\ Keys(r) = Keys(b) \cup Keys(n)
         /\ \A k \in Keys(r) :
              IF k \notin Keys(n) THEN Get(r, k) = Get(b, k)
              ELSE IF k \notin Keys(b) THEN Get(r, k) = Get(n, k)
              ELSE MergedPerType(Get(r, k), Get(b, k), Get(n, k))
    ELSE IF IsList(b) /\ IsList(n)
    THEN /\ IsList(r)
         /\ Len(Payload(r)) = Len(Payload(b)) + Len(Payload(n))
         /\ \A i \in 1..Len(Payload(b)) : Payload(r)[i] = Payload(b)[i]
         /\ \A j \in 1..Len(Payload(n)) :
              Payload(r)[Len(Payload(b)) + j] = Payload(n)[j]
    ELSE r = n

\* C3: merge(base, override) keeps a key of one tree, merges two mappings
\* recursively, appends override's sequence after base's (in order, no
\* deduplication) and takes override's value for any other pair.
C3_MergeFollowsPerTypeStrategy ==
    (op = "merge" /\ Returned) => MergedPerType(Last, base, nxt)

C3_Witness ==
    /\ op = "merge" /\ Returned
    /\ base = PyDict([a |-> PyDict([x |-> PyInt(1)]),
                      items |-> PyList(<<PyInt(1), PyInt(2)>>)])
    /\ nxt = PyDict([a |-> PyDict([y |-> PyInt(2)]),
                     items |-> PyList(<<PyInt(1)>>)])
    /\ Last = PyDict([a |-> PyDict([x |-> PyInt(1), y |-> PyInt(2)]),
                      items |-> PyList(<<PyInt(1), PyInt(2), PyInt(1)>>)])

\* the step is a call of the iterable mapper whose override has `items`
ItemsOverridden == op = "iterable" /\ HasKey(Override, "items")
\* override item i merged into base item i, the other base items kept
PositionalMerge(r, baseItems, overItems) ==
    /\ IsDict(r)
    /\ IsList(At(r, "items"))
    /\ Len(Payload(Get(r, "items"))) = Len(baseItems)
    /\ \A i \in 1..Len(overItems) :
         /\ i <= Len(baseItems)
         /\ Payload(Get(r, "items"))[i] = merger_merge(baseItems[i], overItems[i])
    /\ \A i \in (Len(overItems) + 1)..Len(baseItems) :
         Payload(Get(r, "items"))[i] = baseItems[i]

\* C4 as stated: whenever the override has `items`, the call returns a
\* tree in which override item i is merged into base item i for every
\* index of the override, with as many items as the base.
C4_ItemsMergedByIndex ==
    [][ItemsOverridden =>
          PositionalMerge(results'[Len(results')],
                          Payload(build_items(field)),
                          Payload(Get(Override, "items")))]_vars

\* C4 (amended): that holds when the override has at most as many items as
\* the field; with more override items than base items the call raises
\* IndexError and returns no tree.
C4_ItemsMergedByIndexOrIndexError ==
    [][ItemsOverridden =>
          LET baseItems == Payload(build_items(field))
              overItems == Payload(Get(Override, "items"))
              r == results'[Len(results')]
          IN  IF Len(overItems) <= Len(baseItems)
              THEN PositionalMerge(r, baseItems, overItems)
              ELSE r = Raised("IndexError")]_vars

C4_Witness ==
    /\ op = "iterable" /\ Calls = 1 /\ IsDict(Last)
    /\ Len(field.subfields) = 2
    /\ Get(Payload(build_items(field))[1], "checked") = PyBool(FALSE)
    /\ Len(Payload(Get(Last, "items"))) = 2
    /\ Get(Payload(Get(Last, "items"))[1], "checked") = PyBool(TRUE)
    /\ Payload(Get(Last, "items"))[2] = Payload(build_items(field))[2]

RECURSIVE Leaves(_, _, _)
RECURSIVE LeavesOfDict(_, _, _, _)
RECURSIVE LeavesOfList(_, _, _, _)
\* the leaves under the pairs i.. of a mapping, each as <<path, message>>
LeavesOfDict(pairs, i, path, idMap) ==
    IF i > Len(pairs) THEN <<>>
    ELSE Leaves(pairs[i][2],
                Append(path, IF pairs[i][1] \in DOMAIN idMap
                             THEN idMap[pairs[i][1]] ELSE pairs[i][1]),
                idMap)
         \o LeavesOfDict(pairs, i + 1, path, idMap)
\* the leaves under the sub-forms i.. of a repeated sub-form
LeavesOfList(elems, i, path, idMap) ==
    IF i > Len(elems) THEN <<>>
    ELSE Leaves(elems[i], Append(path, format_int(i - 1)), idMap)
         \o LeavesOfList(elems, i + 1, path, idMap)
\* the leaves of an error tree in depth-first iteration order; an empty
\* sequence has no leaf
Leaves(node, path, idMap) ==
    IF Kind(node) = "odict" THEN LeavesOfDict(Payload(node), 1, path, idMap)
    ELSE IF Kind(node) = "list"
    THEN IF Payload(node) = <<>> THEN <<>>
         ELSE IF Kind(Payload(node)[1]) = "odict"
         THEN LeavesOfList(Payload(node), 1, path, idMap)
         ELSE << <<path, Payload(node)[1]>> >>
    ELSE << <<path, node>> >>

RECURSIVE JoinDash(_)
\* the components of a path joined by dashes
JoinDash(path) ==
    IF path = <<>> THEN <<>>
    ELSE IF Len(path) = 1 THEN path[1]
    ELSE path[1] \o <<"-">> \o JoinDash(Tail(path))

\* one entry per leaf: the message's string form and "#" + the joined path
EntriesOfLeaves(tree, idMap) ==
    LET leaves == Leaves(tree, <<>>, idMap)
    IN  PyList([i \in 1..Len(leaves) |->
                  PyDict([text |-> PyStr(py_str(leaves[i][2])),
                          href |-> PyStr(<<"#">> \o JoinDash(leaves[i][1]))])])

\* C5: a completed flatten_errors returns, in depth-first order, exactly
\* one entry per leaf, whose href is "#" followed by the dash-joined path
\* of idMap-resolved keys and sub-form indices.
C5_OneEntryPerLeafWithJoinedPath ==
    (op = "flatten" /\ Returned /\ ~IsRaised(Last)) =>
        Last = EntriesOfLeaves(errors, id_map)

\* C6: flatten_errors never fails on an empty error sequence: the call
\* completes, whatever the tree.
C6_EmptySequenceDoesNotFail ==
    (op = "flatten" /\ Returned) => ~IsRaised(Last)

\* C7 as stated: value and type carry the kwarg's value when supplied and
\* are left out of the tree when the kwarg is absent and not overridden.
C7_AbsentValueAndTypeOmitted ==
    FormReturned =>
        \A k \in {"value", "type"} :
            IF k \in DOMAIN kwargs THEN At(Last, k) = kwargs[k]
            ELSE At(Override, k) = Missing => At(Last, k) = Missing

\* C7 (amended): value and type are always keys of the returned tree: with
\* the override's value when the params override sets the key, else with
\* the kwarg's value when supplied, else with null.
C7_AbsentValueAndTypeAreNull ==
    FormReturned =>
        \A k \in {"value", "type"} :
            At(Last, k) = IF At(Override, k) # Missing THEN At(Override, k)
                          ELSE IF k \in DOMAIN kwargs THEN kwargs[k]
                          ELSE PyNone

C7_Witness ==
    /\ FormReturned
    /\ "value" \notin DOMAIN kwargs /\ "type" \in DOMAIN kwargs
    /\ At(Override, "value") = Missing /\ At(Override, "type") = Missing
    /\ At(Last, "value") = PyNone
    /\ At(Last, "type") = S("text")

MapperReturned == op \in {"form", "iterable"} /\ Returned /\ IsDict(Last)
FieldDerivedPaths == {<<"label", "text">>, <<"hint", "text">>}

\* C8 as stated: for both mappers and every field state, a scalar the
\* override sets at name, label.text, hint.text or errorMessage.text is the
\* value at that path of the returned tree.
C8_OverrideWinsEverywhere ==
    MapperReturned =>
        /\ At(Override, "name") # Missing =>
             At(Last, "name") = At(Override, "name")
        /\ \A p \in FieldDerivedPaths \cup {<<"errorMessage", "text">>} :
             At2(Override, p[1], p[2]) # Missing =>
                At2(Last, p[1], p[2]) = At2(Override, p[1], p[2])

\* C8 (amended): that holds at name, label.text and hint.text for every
\* field state, and at errorMessage.text when field.errors is empty; when
\* field.errors is non-empty errorMessage.text is the field's first error,
\* whatever the override sets.
C8_OverrideWinsExceptOverFieldError ==
    MapperReturned =>
        /\ At(Override, "name") # Missing =>
             At(Last, "name") = At(Override, "name")
        /\ \A p \in FieldDerivedPaths :
             At2(Override, p[1], p[2]) # Missing =>
                At2(Last, p[1], p[2]) = At2(Override, p[1], p[2])
        /\ IF field.errors # <<>>
           THEN At(Last, "errorMessage") = PyDict([text |-> field.errors[1]])
           ELSE At2(Override, "errorMessage", "text") # Missing =>
                   At2(Last, "errorMessage", "text")
                       = At2(Override, "errorMessage", "text")

C8_Witness ==
    /\ MapperReturned
    /\ op = "iterable"
    /\ field.errors # <<>>
    /\ At2(Override, "errorMessage", "text") = S("OE")
    /\ At2(Last, "errorMessage", "text") = S("E1")
    /\ At2(Last, "hint", "text") = S("OH")
    /\ At(Last, "name") = S("ON")

\* C9: merging an empty override returns the base; map_gov_params with
\* params={} returns what it returns without a params kwarg; wtforms_errors
\* without overrides returns exactly titleText and the flattened errors.
C9_EmptyOverrideChangesNothing ==
    /\ (op = "merge" /\ Returned /\ nxt = EmptyDict) => Last = base
    /\ (op = "form" /\ Returned /\ At(PyDict(kwargs), "params") = EmptyDict) =>
          /\ Last = GovFormBase_map_gov_params(field, Without(kwargs, {"params"}))
          /\ ~IsRaised(Last)
    /\ (op = "summary" /\ Returned /\ params = EmptyDict /\ ~IsRaised(Last)) =>
          Last = PyDict([titleText |-> S("There is a problem"),
                         errorList |-> flatten_errors(form.errors, <<>>,
                                                      form_id_map(form))])

C9_Witness ==
    /\ op = "summary" /\ Returned /\ params = EmptyDict
    /\ IsDict(Last)
    /\ Keys(Last) = {"titleText", "errorList"}
    /\ Len(Payload(Get(Last, "errorList"))) > 0

\* C10: GovIterableBase.map_gov_params leaves the caller's override as it
\* was, so a second call with the same override returns a tree equal to
\* the first.
C10_OverrideLeftUnchanged ==
    [][op = "iterable" =>
          /\ kwargs' = kwargs
          /\ Calls = 1 => results'[2] = results[1]]_vars
====
